---------------------------- MODULE Spec2Model ----------------------------
(***************************************************************************)
(* A model of basic-graph-lib: the Graph<T> store (src/src/lib.rs), its    *)
(* breadth-first traversal (Graph::bfs) and its TGF codec                  *)
(* (src/src/serde.rs).                                                     *)
(*                                                                         *)
(* A graph is a record [nodes, edges]: nodes is a function from the ids    *)
(* present to their values (HashMap<GraphId, T>), edges a set of           *)
(* <<from, to>> pairs (HashSet<Edge>).  The value type T is String, the    *)
(* type src/src/main.rs instantiates the graph with; a String is a         *)
(* sequence of one-character strings.                                      *)
(***************************************************************************)
EXTENDS Integers, Sequences, FiniteSets, TLC

VARIABLES
    graph,      \* the Graph<String> the caller owns in the store scenario
    pc,         \* "idle" | "called" | "bfs" | "done": where the caller is
    op,         \* the call last made on graph: [name |-> ..., arguments]
    pre,        \* graph as it was when that call was made
    ret,        \* what that call returned (get_node), None otherwise
    visited,    \* bfs: the local HashSet visited
    queue,      \* bfs: the local VecDeque queue
    observed,   \* bfs: the views printed to standard output, in order
    diagnostics,\* bfs: the number of lines printed to standard error
    enqueued,   \* bfs: how many ids have been pushed on queue so far
    nodeList,   \* codec scenario: the (id, value) pairs of the input
    edgeList,   \* codec scenario: the (from, to) pairs of the input
    text,       \* codec scenario: the text handed to from_str
    cpc,        \* codec scenario: "input" | "built" | "parsed" | "serialized" | "reparsed"
    built,      \* Graph::from((nodeList, edgeList))
    parsed,     \* text.parse::<Graph<String>>()
    serialized, \* parsed.serialize()
    reparsed,   \* serialized.parse::<Graph<String>>()
    input,      \* parse scenario: the value type and the lines of the text
    driver      \* driver scenario: the file, the source id and the outcome

storeVars == <<graph, pc, op, pre, ret, visited, queue, observed, diagnostics, enqueued>>
codecVars == <<nodeList, edgeList, text, cpc, built, parsed, serialized, reparsed,
               input, driver>>
vars == <<storeVars, codecVars>>

---------------------------------------------------------------------------
(* Bounds of the model. *)

\* Node ids of the store scenario are 1..MaxId.
MaxId == 3
\* add_edge is not called on a graph that already holds MaxEdges edges.
MaxEdges == 3

\* A bulk construction, or an input text, has at most MaxNodePairs (id, value)
\* pairs and at most MaxEdgePairs (from, to) pairs.
MaxNodePairs == 2
MaxEdgePairs == 1

\* The level-order scenario runs bfs on the graphs that have the nodes
\* 1..MaxLevelId and at most MaxLevelEdges edges.
MaxLevelId == 4
MaxLevelEdges == 3

\* A text of the parse scenario has at most MaxLines lines in each section.
MaxLines == 3

\* Node values (T = String): "a" and "b 1".
Values == {<<"a">>, <<"b", " ", "1">>}

Ids == 1..MaxId

\* Node ids of the codec scenario: zero, one digit, two digits.
TextIds == {0, 7, 12}

\* The sequences of at most n elements of S.
ListsUpTo(S, n) == UNION {[1..k -> S] : k \in 0..n}

\* The subsets of P that have at most k elements.
RECURSIVE SetsUpTo(_, _)
SetsUpTo(P, k) ==
    IF k = 0 THEN {{}}
    ELSE LET T == SetsUpTo(P, k - 1)
         IN  T \cup {t \cup {p} : t \in T, p \in P}

\* The graphs with node ids in I, values in V and at most k edges, each edge
\* between two of the graph's nodes: the graphs the store's operations reach.
Graphs(I, V, k) ==
    UNION {{[nodes |-> f, edges |-> E] : f \in [S -> V], E \in SetsUpTo(S \X S, k)} :
              S \in SUBSET I}

---------------------------------------------------------------------------
(* Option<T> *)

None == [tag |-> "None"]
Some(x) == [tag |-> "Some", val |-> x]

\* The orders in which iterating a HashSet / HashMap may yield its elements.
Orderings(S) ==
    {s \in [1..Cardinality(S) -> S] : \A i, j \in DOMAIN s : i # j => s[i] # s[j]}

---------------------------------------------------------------------------
(* Graph store: src/src/lib.rs *)

\* Graph::new
Graph_new == [nodes |-> [k \in {} |-> <<>>], edges |-> {}]

\* A bug add_node could have: insert() in place of entry().or_insert().
add_node_overwrite(g, id, value) ==
    [g EXCEPT !.nodes = [k \in DOMAIN g.nodes \cup {id} |->
                            IF k = id THEN value ELSE g.nodes[k]]]

\* Graph::add_node: self.nodes.entry(id).or_insert(value)
add_node(g, id, value) ==
    IF id \in DOMAIN g.nodes
        THEN g
        ELSE [g EXCEPT !.nodes = [k \in DOMAIN g.nodes \cup {id} |->
                                     IF k = id THEN value ELSE g.nodes[k]]]

\* A bug get_node could have: the filter yielding the other end of every
\* edge that has id at either end.
get_node_either_end(g, id) ==
    IF id \in DOMAIN g.nodes
        THEN {Some([id |-> id, value |-> g.nodes[id],
                    neighbours |-> [i \in DOMAIN es |->
                                      IF es[i][1] = id THEN es[i][2] ELSE es[i][1]]]) :
                 es \in Orderings({e \in g.edges : e[1] = id \/ e[2] = id})}
        ELSE {None}

\* Graph::get_node: the results the call may return.  The neighbours are
\* collected from an iteration over the HashSet edges, whose order is not
\* fixed: filter_map keeps the to of each edge whose from is id.
get_node(g, id) ==
    IF id \in DOMAIN g.nodes
        THEN {Some([id |-> id, value |-> g.nodes[id],
                    neighbours |-> [i \in DOMAIN es |-> es[i][2]]]) :
                 es \in Orderings({e \in g.edges : e[1] = id})}
        ELSE {None}

\* A bug delete_node could have: retain dropping only the outgoing edges.
delete_node_outgoing_only(g, id) ==
    [nodes |-> [k \in DOMAIN g.nodes \ {id} |-> g.nodes[k]],
     edges |-> {e \in g.edges : e[1] # id}]

\* A bug delete_node could have: the retain predicate negated, keeping the
\* incident edges and dropping the others.
delete_node_retain_incident(g, id) ==
    [nodes |-> [k \in DOMAIN g.nodes \ {id} |-> g.nodes[k]],
     edges |-> {e \in g.edges : ~(e[1] # id /\ e[2] # id)}]

\* A bug delete_node could have: the edges are dropped, nodes.remove is
\* missing.
delete_node_edges_only(g, id) ==
    [g EXCEPT !.edges = {e \in @ : e[1] # id /\ e[2] # id}]

\* Graph::delete_node: edges.retain(from != id && to != id); nodes.remove(id)
delete_node(g, id) ==
    [nodes |-> [k \in DOMAIN g.nodes \ {id} |-> g.nodes[k]],
     edges |-> {e \in g.edges : e[1] # id /\ e[2] # id}]

\* A bug add_edge could have: checking only the from endpoint.
add_edge_unchecked_to(g, from, to) ==
    IF from \in DOMAIN g.nodes
        THEN [g EXCEPT !.edges = @ \cup {<<from, to>>}]
        ELSE g

\* Graph::add_edge
add_edge(g, from, to) ==
    IF from \in DOMAIN g.nodes /\ to \in DOMAIN g.nodes
        THEN [g EXCEPT !.edges = @ \cup {<<from, to>>}]
        ELSE g

\* A bug delete_edge could have: && in place of || in the retain predicate.
delete_edge_and(g, from, to) ==
    [g EXCEPT !.edges = {e \in @ : e[1] # from /\ e[2] # to}]

\* Graph::delete_edge: edges.retain(from != from || to != to)
delete_edge(g, from, to) ==
    [g EXCEPT !.edges = {e \in @ : e[1] # from \/ e[2] # to}]

\* The first loop of From::from: add_node for each pair, in order.
RECURSIVE add_nodes(_, _)
add_nodes(g, pairs) ==
    IF pairs = <<>>
        THEN g
        ELSE add_nodes(add_node(g, Head(pairs)[1], Head(pairs)[2]), Tail(pairs))

\* The second loop of From::from: add_edge for each pair, in order.
RECURSIVE add_edges(_, _)
add_edges(g, pairs) ==
    IF pairs = <<>>
        THEN g
        ELSE add_edges(add_edge(g, Head(pairs)[1], Head(pairs)[2]), Tail(pairs))

\* A bug From::from could have: the two loops in the other order.
From_edges_first(nodePairs, edgePairs) ==
    add_nodes(add_edges(Graph_new, edgePairs), nodePairs)

\* impl From<([(GraphId, T); N], [(GraphId, GraphId); M])> for Graph<T>
From(nodePairs, edgePairs) ==
    add_edges(add_nodes(Graph_new, nodePairs), edgePairs)

---------------------------------------------------------------------------
(* The store scenario: a caller that owns one graph and calls its public   *)
(* operations one after the other.                                         *)

NoOp == [name |-> "none"]

\* The bfs locals while no traversal runs.
BfsIdle ==
    /\ visited = {}
    /\ queue = <<>>
    /\ observed = <<>>
    /\ diagnostics = 0
    /\ enqueued = 0

\* The caller calls graph.add_node(id, value).
AddNode ==
    /\ pc = "idle"
    /\ \E id \in Ids, value \in Values :
        /\ op' = [name |-> "add_node", id |-> id, value |-> value]
        /\ graph' = add_node(graph, id, value)
    /\ pre' = graph
    /\ ret' = None
    /\ pc' = "called"
    /\ UNCHANGED <<visited, queue, observed, diagnostics, enqueued>>
    /\ UNCHANGED codecVars

\* The caller calls graph.get_node(id).
GetNode ==
    /\ pc = "idle"
    /\ \E id \in Ids :
        /\ op' = [name |-> "get_node", id |-> id]
        /\ ret' \in get_node(graph, id)
    /\ pre' = graph
    /\ pc' = "called"
    /\ UNCHANGED <<graph, visited, queue, observed, diagnostics, enqueued>>
    /\ UNCHANGED codecVars

\* The caller calls graph.delete_node(id).
DeleteNode ==
    /\ pc = "idle"
    /\ \E id \in Ids :
        /\ op' = [name |-> "delete_node", id |-> id]
        /\ graph' = delete_node(graph, id)
    /\ pre' = graph
    /\ ret' = None
    /\ pc' = "called"
    /\ UNCHANGED <<visited, queue, observed, diagnostics, enqueued>>
    /\ UNCHANGED codecVars

\* The caller calls graph.add_edge(from, to).
AddEdge ==
    /\ pc = "idle"
    /\ Cardinality(graph.edges) < MaxEdges
    /\ \E from \in Ids, to \in Ids :
        /\ op' = [name |-> "add_edge", from |-> from, to |-> to]
        /\ graph' = add_edge(graph, from, to)
    /\ pre' = graph
    /\ ret' = None
    /\ pc' = "called"
    /\ UNCHANGED <<visited, queue, observed, diagnostics, enqueued>>
    /\ UNCHANGED codecVars

\* The caller calls graph.delete_edge(from, to).
DeleteEdge ==
    /\ pc = "idle"
    /\ \E from \in Ids, to \in Ids :
        /\ op' = [name |-> "delete_edge", from |-> from, to |-> to]
        /\ graph' = delete_edge(graph, from, to)
    /\ pre' = graph
    /\ ret' = None
    /\ pc' = "called"
    /\ UNCHANGED <<visited, queue, observed, diagnostics, enqueued>>
    /\ UNCHANGED codecVars

\* The call has returned and the caller has dropped what it returned.
Return ==
    /\ pc = "called"
    /\ pc' = "idle"
    /\ op' = NoOp
    /\ pre' = graph
    /\ ret' = None
    /\ UNCHANGED <<graph, visited, queue, observed, diagnostics, enqueued>>
    /\ UNCHANGED codecVars

\* The caller, delete_node(id) having returned, calls add_node(id, value)
\* with the same id; pre stays the graph from before the deletion.
ReAddNode ==
    /\ pc = "called"
    /\ op.name = "delete_node"
    /\ \E value \in Values :
        /\ op' = [name |-> "delete_node, add_node", id |-> op.id, value |-> value]
        /\ graph' = add_node(graph, op.id, value)
    /\ pc' = "called"
    /\ UNCHANGED <<pre, ret, visited, queue, observed, diagnostics, enqueued>>
    /\ UNCHANGED codecVars

\* The caller calls graph.bfs(source): visited is empty and queue holds source.
BfsCall ==
    /\ pc = "idle"
    /\ \E source \in Ids :
        /\ op' = [name |-> "bfs", source |-> source]
        /\ queue' = <<source>>
    /\ visited' = {}
    /\ observed' = <<>>
    /\ diagnostics' = 0
    /\ enqueued' = 1
    /\ pre' = graph
    /\ ret' = None
    /\ pc' = "bfs"
    /\ UNCHANGED graph
    /\ UNCHANGED codecVars

\* A bug bfs could have: the front of the queue is looked at (front()) but
\* not popped when it was visited before.
BfsSkip_no_pop ==
    /\ pc = "bfs"
    /\ queue # <<>>
    /\ Head(queue) \in visited
    /\ UNCHANGED <<graph, pc, op, pre, ret, visited, queue, observed, diagnostics, enqueued>>
    /\ UNCHANGED codecVars

\* The caller calls graph.bfs(source) in the level-order scenario, with the
\* id of a node or with 0, the id of none.
LevelBfsCall ==
    /\ pc = "idle"
    /\ \E source \in 0..MaxLevelId :
        /\ op' = [name |-> "bfs", source |-> source]
        /\ queue' = <<source>>
    /\ visited' = {}
    /\ observed' = <<>>
    /\ diagnostics' = 0
    /\ enqueued' = 1
    /\ pre' = graph
    /\ ret' = None
    /\ pc' = "bfs"
    /\ UNCHANGED graph
    /\ UNCHANGED codecVars

\* One iteration of bfs's while loop whose popped id was visited before.
BfsSkip ==
    /\ pc = "bfs"
    /\ queue # <<>>
    /\ Head(queue) \in visited
    /\ queue' = Tail(queue)
    /\ UNCHANGED <<graph, pc, op, pre, ret, visited, observed, diagnostics, enqueued>>
    /\ UNCHANGED codecVars

\* A bug bfs could have: the unresolved id is passed over without the
\* diagnostic.
BfsMissing_silent ==
    /\ pc = "bfs"
    /\ queue # <<>>
    /\ Head(queue) \notin visited
    /\ None \in get_node(graph, Head(queue))
    /\ visited' = visited \cup {Head(queue)}
    /\ queue' = Tail(queue)
    /\ UNCHANGED <<graph, pc, op, pre, ret, observed, diagnostics, enqueued>>
    /\ UNCHANGED codecVars

\* One iteration of bfs's while loop whose popped id does not resolve:
\* the diagnostic is printed and the loop continues.
BfsMissing ==
    /\ pc = "bfs"
    /\ queue # <<>>
    /\ Head(queue) \notin visited
    /\ None \in get_node(graph, Head(queue))
    /\ visited' = visited \cup {Head(queue)}
    /\ diagnostics' = diagnostics + 1
    /\ queue' = Tail(queue)
    /\ UNCHANGED <<graph, pc, op, pre, ret, observed, enqueued>>
    /\ UNCHANGED codecVars

\* A bug bfs could have: the popped id is not inserted into visited.
BfsVisit_unmarked ==
    /\ pc = "bfs"
    /\ queue # <<>>
    /\ Head(queue) \notin visited
    /\ \E node \in get_node(graph, Head(queue)) \ {None} :
        /\ observed' = Append(observed, node.val)
        /\ queue' = Tail(queue) \o node.val.neighbours
        /\ enqueued' = enqueued + Len(node.val.neighbours)
    /\ UNCHANGED <<graph, pc, op, pre, ret, visited, diagnostics>>
    /\ UNCHANGED codecVars

\* A bug bfs could have: the neighbours pushed on the front of the queue
\* (a stack: depth first).
BfsVisit_push_front ==
    /\ pc = "bfs"
    /\ queue # <<>>
    /\ Head(queue) \notin visited
    /\ \E node \in get_node(graph, Head(queue)) \ {None} :
        /\ observed' = Append(observed, node.val)
        /\ queue' = node.val.neighbours \o Tail(queue)
        /\ enqueued' = enqueued + Len(node.val.neighbours)
    /\ visited' = visited \cup {Head(queue)}
    /\ UNCHANGED <<graph, pc, op, pre, ret, diagnostics>>
    /\ UNCHANGED codecVars

\* One iteration of bfs's while loop whose popped id resolves: the view is
\* printed and its neighbours are pushed on the back of the queue.
BfsVisit ==
    /\ pc = "bfs"
    /\ queue # <<>>
    /\ Head(queue) \notin visited
    /\ \E node \in get_node(graph, Head(queue)) \ {None} :
        /\ observed' = Append(observed, node.val)
        /\ queue' = Tail(queue) \o node.val.neighbours
        /\ enqueued' = enqueued + Len(node.val.neighbours)
    /\ visited' = visited \cup {Head(queue)}
    /\ UNCHANGED <<graph, pc, op, pre, ret, diagnostics>>
    /\ UNCHANGED codecVars

\* bfs's while loop ends: the queue is empty.
BfsExit ==
    /\ pc = "bfs"
    /\ queue = <<>>
    /\ pc' = "done"
    /\ UNCHANGED <<graph, op, pre, ret, visited, queue, observed, diagnostics, enqueued>>
    /\ UNCHANGED codecVars

\* bfs has returned; its locals are dropped.
BfsReturn ==
    /\ pc = "done"
    /\ pc' = "idle"
    /\ op' = NoOp
    /\ visited' = {}
    /\ queue' = <<>>
    /\ observed' = <<>>
    /\ diagnostics' = 0
    /\ enqueued' = 0
    /\ UNCHANGED <<graph, pre, ret>>
    /\ UNCHANGED codecVars

---------------------------------------------------------------------------
(* TGF codec: src/src/serde.rs.  A text is a sequence of one-character     *)
(* strings.  A parser takes a text and returns Ok(rest, out), a            *)
(* recoverable Error or an unrecoverable Failure (nom's IResult).          *)

LF == "\n"
CR == "\r"
Digits == <<"0", "1", "2", "3", "4", "5", "6", "7", "8", "9">>

Ok(rest, out) == [kind |-> "Ok", rest |-> rest, out |-> out]
Error(what) == [kind |-> "Error", what |-> what]
Failure(what) == [kind |-> "Failure", what |-> what]

IsDigit(c) == \E d \in DOMAIN Digits : Digits[d] = c
DigitValue(c) == (CHOOSE d \in DOMAIN Digits : Digits[d] = c) - 1

\* The text from position i on (1-based); empty when i is past the end.
Drop(s, i) == SubSeq(s, i, Len(s))

\* The length of the longest prefix of s whose characters all satisfy in(_).
RECURSIVE PrefixLen(_, _)
PrefixLen(s, in) ==
    IF s # <<>> /\ Head(s) \in in THEN 1 + PrefixLen(Tail(s), in) ELSE 0

\* The number a run of decimal digits denotes.
RECURSIVE DecimalValue(_)
DecimalValue(ds) ==
    IF ds = <<>> THEN 0 ELSE 10 * DecimalValue(SubSeq(ds, 1, Len(ds) - 1))
                              + DigitValue(ds[Len(ds)])

\* nom::character::complete::u64: the leading decimal digits, at least one.
\* (Its checked_mul / checked_add overflow branch needs more than 19 digits;
\* the texts of this model have ids of at most two digits.)
u64(s) ==
    LET n == PrefixLen(s, {Digits[d] : d \in DOMAIN Digits})
    IN  IF n = 0
            THEN Error("Digit")
            ELSE Ok(Drop(s, n + 1), DecimalValue(SubSeq(s, 1, n)))

\* nom::character::complete::space1: one or more spaces or tabs.
space1(s) ==
    LET n == PrefixLen(s, {" ", "\t"})
    IN  IF n = 0 THEN Error("Space") ELSE Ok(Drop(s, n + 1), SubSeq(s, 1, n))

\* nom::character::complete::line_ending: "\n" or "\r\n".
line_ending(s) ==
    IF s # <<>> /\ s[1] = LF
        THEN Ok(Drop(s, 2), <<LF>>)
        ELSE IF Len(s) >= 2 /\ s[1] = CR /\ s[2] = LF
            THEN Ok(Drop(s, 3), <<CR, LF>>)
            ELSE Error("CrLf")

\* nom::character::complete::char('#')
char_hash(s) ==
    IF s # <<>> /\ s[1] = "#" THEN Ok(Drop(s, 2), "#") ELSE Error("Char")

\* nom::character::complete::not_line_ending: everything up to the first
\* '\r' or '\n'; an error when that is a '\r' not followed by '\n'.
not_line_ending(s) ==
    LET n == PrefixLen(s, {s[i] : i \in DOMAIN s} \ {CR, LF})
    IN  IF n < Len(s) /\ s[n + 1] = CR /\ ~(n + 2 <= Len(s) /\ s[n + 2] = LF)
            THEN Error("Tag")
            ELSE Ok(Drop(s, n + 1), SubSeq(s, 1, n))

\* <String as FromStr>::from_str: never fails, the text itself.
String_from_str(s) == Some(s)

\* <u64 as FromStr>::from_str: an optional '+', then one or more digits and
\* nothing else.
u64_from_str(s) ==
    LET ds == IF s # <<>> /\ s[1] = "+" THEN Tail(s) ELSE s
    IN  IF ds # <<>> /\ \A i \in DOMAIN ds : IsDigit(ds[i])
            THEN Some(DecimalValue(ds))
            ELSE None

\* <i32 as FromStr>::from_str: an optional '+' or '-', then one or more
\* digits and nothing else.  (The values of this model are far from the
\* overflow of i32.)
i32_from_str(s) ==
    LET signed == s # <<>> /\ s[1] \in {"+", "-"}
        ds == IF signed THEN Tail(s) ELSE s
    IN  IF ds # <<>> /\ \A i \in DOMAIN ds : IsDigit(ds[i])
            THEN Some(IF signed /\ s[1] = "-" THEN 0 - DecimalValue(ds)
                                               ELSE DecimalValue(ds))
            ELSE None

\* T::from_str for the value types in use: String, i32 and GraphId (u64).
T_from_str(T, s) ==
    IF T = "String" THEN String_from_str(s)
    ELSE IF T = "i32" THEN i32_from_str(s)
    ELSE u64_from_str(s)

\* A bug parse_value could have: nom::Err::Error, which separated_list0
\* takes for the end of the list, in place of nom::Err::Failure.
parse_value_recoverable(T, s) ==
    LET r == T_from_str(T, s)
    IN  IF r = None THEN Error(s) ELSE Ok(<<>>, r.val)

\* parse_value::<T>: s.parse(), a Failure when T rejects s.
parse_value(T, s) ==
    LET r == T_from_str(T, s)
    IN  IF r = None THEN Failure(s) ELSE Ok(<<>>, r.val)

\* One line of a section:
\* separated_pair(u64, space1, map_parser(not_line_ending, parse_value)).
parse_pair(T, s) ==
    LET id == u64(s)
    IN  IF id.kind # "Ok" THEN id ELSE
        LET sp == space1(id.rest)
        IN  IF sp.kind # "Ok" THEN sp ELSE
            LET line == not_line_ending(sp.rest)
            IN  IF line.kind # "Ok" THEN line ELSE
                LET value == parse_value(T, line.out)
                IN  IF value.kind # "Ok" THEN value
                    ELSE Ok(line.rest, <<id.out, value.out>>)

\* The loop of separated_list0 after its first element: i is the input left
\* after the last element, res the elements so far.
RECURSIVE separated_list0_loop(_, _, _)
separated_list0_loop(T, i, res) ==
    LET sep == line_ending(i)
    IN  IF sep.kind = "Error" THEN Ok(i, res)
        ELSE IF sep.kind # "Ok" THEN sep
        ELSE LET el == parse_pair(T, sep.rest)
             IN  IF el.kind = "Error" THEN Ok(i, res)
                 ELSE IF el.kind # "Ok" THEN el
                 ELSE separated_list0_loop(T, el.rest, Append(res, el.out))

\* parse_pairs::<T>: separated_list0(line_ending, <one line>).
parse_pairs(T, s) ==
    LET el == parse_pair(T, s)
    IN  IF el.kind = "Error" THEN Ok(s, <<>>)
        ELSE IF el.kind # "Ok" THEN el
        ELSE separated_list0_loop(T, el.rest, <<el.out>>)

\* A bug from_str could have: the delimiter made optional (opt), so that
\* the edge section may follow the node section directly.
delimiter_optional(s) ==
    LET a == line_ending(s)
    IN  IF a.kind # "Ok" THEN Ok(s, "") ELSE
        LET b == char_hash(a.rest)
        IN  IF b.kind # "Ok" THEN Ok(s, "") ELSE
            LET c == line_ending(b.rest)
            IN  IF c.kind # "Ok" THEN Ok(s, "") ELSE Ok(c.rest, b.out)

\* delimited(line_ending, char('#'), line_ending)
delimiter(s) ==
    LET a == line_ending(s)
    IN  IF a.kind # "Ok" THEN a ELSE
        LET b == char_hash(a.rest)
        IN  IF b.kind # "Ok" THEN b ELSE
            LET c == line_ending(b.rest)
            IN  IF c.kind # "Ok" THEN c ELSE Ok(c.rest, b.out)

\* <Graph<T> as FromStr>::from_str: Ok(graph) or Err.  The input left
\* after the edge section is dropped by the map closure.
Graph_from_str(T, s) ==
    LET ns == parse_pairs(T, s)
    IN  IF ns.kind # "Ok" THEN [kind |-> "Err", what |-> ns.what] ELSE
        LET d == delimiter(ns.rest)
        IN  IF d.kind # "Ok" THEN [kind |-> "Err", what |-> d.what] ELSE
            LET es == parse_pairs("GraphId", d.rest)
            IN  IF es.kind # "Ok" THEN [kind |-> "Err", what |-> es.what]
                ELSE [kind |-> "Ok",
                      graph |-> add_edges(add_nodes(Graph_new, ns.out), es.out)]

\* <Graph<String> as FromStr>::from_str
from_str(s) == Graph_from_str("String", s)

\* <u64 as Display>::fmt: the decimal digits, no leading zero.
RECURSIVE u64_to_string(_)
u64_to_string(n) ==
    IF n < 10 THEN <<Digits[n + 1]>>
              ELSE u64_to_string(n \div 10) \o <<Digits[(n % 10) + 1]>>

\* <String as Display>::fmt: the text itself.
String_to_string(v) == v

\* The concatenation of the texts of a sequence of texts.
RECURSIVE Concat(_)
Concat(ss) == IF ss = <<>> THEN <<>> ELSE Head(ss) \o Concat(Tail(ss))

\* Graph::serialize: the texts the call may return, one for each order in
\* which the HashMap nodes and the HashSet edges may be iterated.
serialize(g) ==
    {Concat([i \in DOMAIN ns |->
                u64_to_string(ns[i]) \o <<" ">> \o String_to_string(g.nodes[ns[i]]) \o <<LF>>])
     \o <<"#", LF>>
     \o Concat([i \in DOMAIN es |->
                u64_to_string(es[i][1]) \o <<" ">> \o u64_to_string(es[i][2]) \o <<LF>>]) :
        ns \in Orderings(DOMAIN g.nodes), es \in Orderings(g.edges)}

---------------------------------------------------------------------------
(* The codec scenario: a graph is built from the lists nodeList and        *)
(* edgeList, the TGF text of the same lists is parsed, and the parsed      *)
(* graph is serialized and parsed again.                                   *)

\* The lines of ls joined by line endings (none after the last).
RECURSIVE JoinLines(_)
JoinLines(ls) ==
    IF ls = <<>> THEN <<>>
    ELSE IF Len(ls) = 1 THEN ls[1]
    ELSE ls[1] \o <<LF>> \o JoinLines(Tail(ls))

\* The TGF text of a node list and an edge list: one line per pair, the
\* sections separated by a line ending, '#', and a line ending.
TgfText(nodePairs, edgePairs) ==
    JoinLines([i \in DOMAIN nodePairs |->
                 u64_to_string(nodePairs[i][1]) \o <<" ">> \o nodePairs[i][2]])
    \o <<LF, "#", LF>>
    \o JoinLines([i \in DOMAIN edgePairs |->
                 u64_to_string(edgePairs[i][1]) \o <<" ">> \o u64_to_string(edgePairs[i][2])])

\* The caller builds Graph::from((nodeList, edgeList)).
Construct ==
    /\ cpc = "input"
    /\ built' = From(nodeList, edgeList)
    /\ cpc' = "built"
    /\ UNCHANGED <<nodeList, edgeList, text, parsed, serialized, reparsed, input, driver>>
    /\ UNCHANGED storeVars

\* The caller parses text.
Parse ==
    /\ cpc = "built"
    /\ parsed' = from_str(text)
    /\ cpc' = "parsed"
    /\ UNCHANGED <<nodeList, edgeList, text, built, serialized, reparsed, input, driver>>
    /\ UNCHANGED storeVars

\* The caller serializes the graph the parse returned.
Serialize ==
    /\ cpc = "parsed"
    /\ parsed.kind = "Ok"
    /\ serialized' \in serialize(parsed.graph)
    /\ cpc' = "serialized"
    /\ UNCHANGED <<nodeList, edgeList, text, built, parsed, reparsed, input, driver>>
    /\ UNCHANGED storeVars

\* The caller parses the serialized text.
Reparse ==
    /\ cpc = "serialized"
    /\ reparsed' = from_str(serialized)
    /\ cpc' = "reparsed"
    /\ UNCHANGED <<nodeList, edgeList, text, built, parsed, serialized, input, driver>>
    /\ UNCHANGED storeVars

---------------------------------------------------------------------------
(* The parse scenario: a text put together from node lines, a delimiter    *)
(* and edge lines, some of them malformed, is parsed as Graph<String> or   *)
(* as Graph<i32>.                                                          *)

\* Node lines whose value String and i32 accept ("1 5"); whose value only
\* String accepts ("2 a"); lines whose id is not a number ("x 1").
NumberNodeLine == <<"1", " ", "5">>
WordNodeLine == <<"2", " ", "a">>
NonNumericIdLine == <<"x", " ", "1">>
NodeLines == {NumberNodeLine, WordNodeLine, NonNumericIdLine}

\* The node lines that are well-formed for T, and those whose value T rejects.
ValidNodeLines(T) ==
    IF T = "String" THEN {NumberNodeLine, WordNodeLine} ELSE {NumberNodeLine}
RejectedNodeLines(T) ==
    IF T = "String" THEN {} ELSE {WordNodeLine}

\* Edge lines: well-formed ("1 2"), with a to that u64 rejects ("2 x"), with
\* a from that is not a number ("x 1").
ValidEdgeLine == <<"1", " ", "2">>
RejectedEdgeLine == <<"2", " ", "x">>
EdgeLines == {ValidEdgeLine, RejectedEdgeLine, NonNumericIdLine}

\* The section delimiter, and what may stand in its place when it is
\* lacking: nothing, a line ending alone, the '#' without the line ending
\* after it.
Delimiter == <<LF, "#", LF>>
Delimiters == {Delimiter, <<>>, <<LF>>, <<LF, "#">>}

\* The text of an input: the node lines, the delimiter, the edge lines.
InputText(in) ==
    JoinLines(in.nodeLines) \o in.delim \o JoinLines(in.edgeLines)

\* The caller parses the text as Graph<T>.
ParseInput ==
    /\ cpc = "input"
    /\ input # None
    /\ parsed' = Graph_from_str(input.T, text)
    /\ cpc' = "parsed"
    /\ UNCHANGED <<nodeList, edgeList, text, built, serialized, reparsed, input, driver>>
    /\ UNCHANGED storeVars

---------------------------------------------------------------------------
(* The command-line driver: src/src/main.rs.  The file at the given path   *)
(* is unreadable (None) or holds a text; the driver is at "start", in the  *)
(* traversal ("traverse") or back from main ("exited").                    *)

\* The exit status of a process whose main returns (): main has no return
\* type and calls neither process::exit nor panics on these paths.
ExitCode_SUCCESS == 0

\* An edge line from a node to itself ("1 1").
LoopEdgeLine == <<"1", " ", "1">>

\* What fs::read_to_string may meet at the path.
Files ==
    {None} \cup
    {Some(InputText(in)) :
        in \in [T : {"String"},
                nodeLines : ListsUpTo(ValidNodeLines("String"), MaxNodePairs),
                delim : {Delimiter, <<>>},
                edgeLines : ListsUpTo({ValidEdgeLine, LoopEdgeLine, RejectedEdgeLine},
                                      MaxEdgePairs)]}

\* Result::map_err(|e| format!(...)): the message in place of the error.
map_err(r, message) ==
    IF r.kind = "Err" THEN [kind |-> "Err", message |-> message] ELSE r

\* traverse_graph up to the call of bfs: the graph, or the message of the
\* first ? that returns early.
read_and_parse(file) ==
    IF file = None
        THEN [kind |-> "Err", message |-> "Failed to read graph file"]
        ELSE map_err(from_str(file.val), "Failed to parse graph")

\* main, the file is not read or its text does not parse: traverse_graph
\* returns the Err, main prints it to standard error and returns.
main_error ==
    /\ driver # None
    /\ driver.pc = "start"
    /\ \E r \in {read_and_parse(driver.file)} :
        /\ r.kind = "Err"
        /\ driver' = [driver EXCEPT !.pc = "exited",
                                    !.stderr = Append(@, r.message),
                                    !.exit = Some(ExitCode_SUCCESS)]
    /\ UNCHANGED <<nodeList, edgeList, text, cpc, built, parsed, serialized, reparsed, input>>
    /\ UNCHANGED storeVars

\* main, the file is read and its text parses: traverse_graph calls
\* graph.bfs(id).
main_bfs ==
    /\ driver # None
    /\ driver.pc = "start"
    /\ \E r \in {read_and_parse(driver.file)} :
        /\ r.kind = "Ok"
        /\ graph' = r.graph
        /\ pre' = r.graph
    /\ op' = [name |-> "bfs", source |-> driver.source]
    /\ queue' = <<driver.source>>
    /\ visited' = {}
    /\ observed' = <<>>
    /\ diagnostics' = 0
    /\ enqueued' = 1
    /\ ret' = None
    /\ pc' = "bfs"
    /\ driver' = [driver EXCEPT !.pc = "traverse"]
    /\ UNCHANGED <<nodeList, edgeList, text, cpc, built, parsed, serialized, reparsed, input>>

\* bfs has returned: traverse_graph returns Ok(()), main returns.
main_return ==
    /\ driver # None
    /\ driver.pc = "traverse"
    /\ pc = "done"
    /\ driver' = [driver EXCEPT !.pc = "exited", !.exit = Some(ExitCode_SUCCESS)]
    /\ UNCHANGED <<nodeList, edgeList, text, cpc, built, parsed, serialized, reparsed, input>>
    /\ UNCHANGED storeVars

---------------------------------------------------------------------------
(* Specifications *)

\* The store variables while the codec scenario runs.
StoreOff ==
    /\ graph = Graph_new
    /\ pc = "off"
    /\ op = NoOp
    /\ pre = Graph_new
    /\ ret = None
    /\ BfsIdle

\* The codec variables while the store scenario runs.
CodecOff ==
    /\ nodeList = <<>>
    /\ edgeList = <<>>
    /\ text = <<>>
    /\ cpc = "off"
    /\ built = None
    /\ parsed = None
    /\ serialized = None
    /\ reparsed = None
    /\ input = None
    /\ driver = None

\* The store scenario starts from Graph::new() or from a bulk construction.
Init ==
    /\ graph \in {Graph_new}
            \cup {From(ns, es) : ns \in ListsUpTo(Ids \X Values, MaxNodePairs),
                                 es \in ListsUpTo(Ids \X Ids, MaxEdgePairs)}
    /\ pc = "idle"
    /\ op = NoOp
    /\ pre = graph
    /\ ret = None
    /\ BfsIdle
    /\ CodecOff

Next ==
    \/ AddNode
    \/ GetNode
    \/ DeleteNode
    \/ AddEdge
    \/ DeleteEdge
    \/ Return
    \/ BfsCall
    \/ BfsSkip
    \/ BfsMissing
    \/ BfsVisit
    \/ BfsExit
    \/ BfsReturn

Spec == Init /\ [][Next]_vars

\* One iteration of bfs's while loop, or its exit.
BfsStep == BfsSkip \/ BfsMissing \/ BfsVisit \/ BfsExit

\* The store scenario with the traversal running on: bfs is sequential code
\* on one thread, so a loop iteration that can be taken is taken.
FairSpec == Init /\ [][Next]_vars /\ WF_vars(BfsStep)

\* The parse scenario starts with a value type and a text.
ParseInit ==
    /\ input \in [T : {"String", "i32"},
                  nodeLines : ListsUpTo(NodeLines, MaxLines),
                  delim : Delimiters,
                  edgeLines : ListsUpTo(EdgeLines, MaxLines)]
    /\ text = InputText(input)
    /\ cpc = "input"
    /\ nodeList = <<>>
    /\ edgeList = <<>>
    /\ built = None
    /\ parsed = None
    /\ serialized = None
    /\ reparsed = None
    /\ driver = None
    /\ StoreOff

ParseNext == ParseInput

ParseSpec == ParseInit /\ [][ParseNext]_vars

\* The driver scenario starts in main with the parsed arguments: a file and
\* a source id.
DriverInit ==
    /\ driver \in [pc : {"start"}, file : Files, source : Ids,
                   stderr : {<<>>}, exit : {None}]
    /\ nodeList = <<>>
    /\ edgeList = <<>>
    /\ text = <<>>
    /\ cpc = "off"
    /\ built = None
    /\ parsed = None
    /\ serialized = None
    /\ reparsed = None
    /\ input = None
    /\ StoreOff

DriverNext ==
    \/ main_error
    \/ main_bfs
    \/ BfsSkip
    \/ BfsMissing
    \/ BfsVisit
    \/ BfsExit
    \/ main_return

DriverSpec == DriverInit /\ [][DriverNext]_vars

\* The re-add scenario: on any graph of the store, delete_node(id) and then
\* add_node(id, value).
ReAddInit ==
    /\ graph \in Graphs(Ids, Values, MaxEdges)
    /\ pc = "idle"
    /\ op = NoOp
    /\ pre = graph
    /\ ret = None
    /\ BfsIdle
    /\ CodecOff

ReAddNext ==
    \/ DeleteNode
    \/ ReAddNode

ReAddSpec == ReAddInit /\ [][ReAddNext]_vars

\* The level-order scenario: bfs on a graph of MaxLevelId nodes.
LevelInit ==
    /\ graph \in Graphs(1..MaxLevelId, {<<"a">>}, MaxLevelEdges)
    /\ DOMAIN graph.nodes = 1..MaxLevelId
    /\ pc = "idle"
    /\ op = NoOp
    /\ pre = graph
    /\ ret = None
    /\ BfsIdle
    /\ CodecOff

LevelNext ==
    \/ LevelBfsCall
    \/ BfsSkip
    \/ BfsMissing
    \/ BfsVisit
    \/ BfsExit
    \/ BfsReturn

LevelSpec == LevelInit /\ [][LevelNext]_vars

\* The codec scenario starts with the input lists and their TGF text.
CodecInit ==
    /\ nodeList \in ListsUpTo(TextIds \X Values, MaxNodePairs)
    /\ edgeList \in ListsUpTo(TextIds \X TextIds, MaxEdgePairs)
    /\ text = TgfText(nodeList, edgeList)
    /\ cpc = "input"
    /\ built = None
    /\ parsed = None
    /\ serialized = None
    /\ reparsed = None
    /\ input = None
    /\ driver = None
    /\ StoreOff

CodecNext ==
    \/ Construct
    \/ Parse
    \/ Serialize
    \/ Reparse

CodecSpec == CodecInit /\ [][CodecNext]_vars

---------------------------------------------------------------------------
(* Properties of the graph store *)

\* The edges of g that have id as from or as to.
Incident(g, id) == {e \in g.edges : e[1] = id \/ e[2] = id}

\* A call of the named operation has just returned.
Called(name) == pc = "called" /\ op.name = name

\* C1: in every graph reached from Graph::new() or from a bulk construction
\* by add_node, add_edge, delete_node and delete_edge calls, both ends of
\* every edge are keys of nodes.
C1_EdgeEndsAreNodes ==
    \A e \in graph.edges : e[1] \in DOMAIN graph.nodes /\ e[2] \in DOMAIN graph.nodes

\* C1 witness: delete_node has removed a node that had incoming and outgoing
\* edges, and other edges remain.
C1_Witness ==
    /\ Called("delete_node")
    /\ \E e \in pre.edges : e[1] = op.id /\ e[2] # op.id
    /\ \E e \in pre.edges : e[2] = op.id /\ e[1] # op.id
    /\ graph.edges # {}

\* C2: add_node(id, v) stores v under an absent id, leaves the value of a
\* present id as it was and the number of nodes unchanged, and never changes
\* the edges.
C2_AddNodeFirstWriteWins ==
    Called("add_node") =>
        /\ graph.edges = pre.edges
        /\ \A k \in DOMAIN pre.nodes :
              k \in DOMAIN graph.nodes /\ graph.nodes[k] = pre.nodes[k]
        /\ IF op.id \in DOMAIN pre.nodes
              THEN /\ DOMAIN graph.nodes = DOMAIN pre.nodes
                   /\ Cardinality(DOMAIN graph.nodes) = Cardinality(DOMAIN pre.nodes)
              ELSE /\ DOMAIN graph.nodes = DOMAIN pre.nodes \cup {op.id}
                   /\ graph.nodes[op.id] = op.value

\* C2 witness: add_node was called with a present id and another value than
\* the stored one, on a graph with edges.
C2_Witness ==
    /\ Called("add_node")
    /\ op.id \in DOMAIN pre.nodes
    /\ pre.nodes[op.id] # op.value
    /\ pre.edges # {}

\* C3: add_edge(from, to) with both ends present makes the edge set the old
\* one plus (from, to), one more edge if it was new and as many if it was
\* there; with an end missing the graph is unchanged.  The nodes never change.
C3_AddEdgeGated ==
    Called("add_edge") =>
        /\ graph.nodes = pre.nodes
        /\ IF op.from \in DOMAIN pre.nodes /\ op.to \in DOMAIN pre.nodes
              THEN /\ graph.edges = pre.edges \cup {<<op.from, op.to>>}
                   /\ Cardinality(graph.edges) = Cardinality(pre.edges) +
                         (IF <<op.from, op.to>> \in pre.edges THEN 0 ELSE 1)
              ELSE graph = pre

\* C3 witness: add_edge was called with from present and to missing, on a
\* graph that has edges.
C3_Witness ==
    /\ Called("add_edge")
    /\ op.from \in DOMAIN pre.nodes
    /\ op.to \notin DOMAIN pre.nodes
    /\ pre.edges # {}

\* C4: delete_node(id) with id present removes id from nodes and exactly the
\* edges that have id as from or to; the other nodes keep their values, and
\* the edge count falls by the number of distinct incident edges.
C4_DeleteNodeCascades ==
    (Called("delete_node") /\ op.id \in DOMAIN pre.nodes) =>
        /\ DOMAIN graph.nodes = DOMAIN pre.nodes \ {op.id}
        /\ \A k \in DOMAIN graph.nodes : graph.nodes[k] = pre.nodes[k]
        /\ graph.edges = pre.edges \ Incident(pre, op.id)
        /\ Cardinality(pre.edges) - Cardinality(graph.edges)
              = Cardinality(Incident(pre, op.id))

\* C4 witness: the deleted node had a self-loop and another incident edge,
\* and an edge that is not incident to it is still there.
C4_Witness ==
    /\ Called("delete_node")
    /\ <<op.id, op.id>> \in pre.edges
    /\ Cardinality(Incident(pre, op.id)) >= 2
    /\ graph.edges # {}

\* C5: for an id that is absent from the graph, get_node returns None and
\* delete_node leaves nodes and edges as they were.
C5_AbsentIdNoEffect ==
    /\ (Called("get_node") /\ op.id \notin DOMAIN pre.nodes) =>
          ret = None /\ graph = pre
    /\ (Called("delete_node") /\ op.id \notin DOMAIN pre.nodes) =>
          graph.nodes = pre.nodes /\ graph.edges = pre.edges

\* C5 witness: delete_node was called with an absent id on a graph with edges.
C5_Witness ==
    /\ Called("delete_node")
    /\ op.id \notin DOMAIN pre.nodes
    /\ pre.edges # {}

\* C6: delete_edge(from, to) removes the edge (from, to) and nothing else:
\* every other edge and the nodes are as before, and so is the whole graph
\* when (from, to) was not there.
C6_DeleteEdgeExact ==
    Called("delete_edge") =>
        /\ graph.nodes = pre.nodes
        /\ graph.edges = pre.edges \ {<<op.from, op.to>>}
        /\ (<<op.to, op.from>> \in pre.edges /\ op.from # op.to)
              => <<op.to, op.from>> \in graph.edges
        /\ \A e \in pre.edges : (e[1] = op.from) # (e[2] = op.to) => e \in graph.edges
        /\ <<op.from, op.to>> \notin pre.edges => graph = pre

\* C6 witness: the deleted edge was there, and so were its reverse edge and
\* another edge from the same node.
C6_Witness ==
    /\ Called("delete_edge")
    /\ op.from # op.to
    /\ <<op.from, op.to>> \in pre.edges
    /\ <<op.to, op.from>> \in pre.edges
    /\ \E e \in pre.edges : e[1] = op.from /\ e[2] \notin {op.from, op.to}

\* C7: get_node(id) with id present returns a view with that id, the stored
\* value and, each listed once, the ids to with (id, to) an edge; edges into
\* id add nothing, and the graph is unchanged.
C7_GetNodeView ==
    (Called("get_node") /\ op.id \in DOMAIN pre.nodes) =>
        /\ ret.tag = "Some"
        /\ ret.val.id = op.id
        /\ ret.val.value = pre.nodes[op.id]
        /\ {ret.val.neighbours[i] : i \in DOMAIN ret.val.neighbours}
              = {to \in DOMAIN pre.nodes : <<op.id, to>> \in pre.edges}
        /\ \A i, j \in DOMAIN ret.val.neighbours :
              i # j => ret.val.neighbours[i] # ret.val.neighbours[j]
        /\ graph = pre

\* C7 witness: the node has two outgoing edges and an incoming edge from a
\* node that is not among its neighbours.
C7_Witness ==
    /\ Called("get_node")
    /\ ret # None
    /\ Len(ret.val.neighbours) = 2
    /\ \E e \in pre.edges :
          /\ e[2] = op.id
          /\ e[1] # op.id
          /\ <<op.id, e[1]>> \notin pre.edges

---------------------------------------------------------------------------
(* Properties of construction and of the codec *)

\* The ids that occur in a list of (id, value) pairs.
IdsOf(nodePairs) == {nodePairs[i][1] : i \in DOMAIN nodePairs}

\* The value paired with id where id first occurs in nodePairs.
FirstValue(nodePairs, id) ==
    LET first == CHOOSE i \in DOMAIN nodePairs :
                    /\ nodePairs[i][1] = id
                    /\ \A j \in DOMAIN nodePairs : nodePairs[j][1] = id => i <= j
    IN  nodePairs[first][2]

\* The graph the lists denote: each id with its first value, and the edges
\* whose two ends both occur as ids.
Denoted(nodePairs, edgePairs) ==
    [nodes |-> [id \in IdsOf(nodePairs) |-> FirstValue(nodePairs, id)],
     edges |-> {edgePairs[j] : j \in
                   {i \in DOMAIN edgePairs : /\ edgePairs[i][1] \in IdsOf(nodePairs)
                                             /\ edgePairs[i][2] \in IdsOf(nodePairs)}}]

\* C8: the graph built from the lists by bulk construction, and the graph
\* parsed from their text, map each id to the value of its first occurrence
\* and hold exactly the edges both of whose ends occur as ids.
C8_BulkAndParseReplay ==
    /\ cpc \in {"built", "parsed", "serialized", "reparsed"} =>
          built = Denoted(nodeList, edgeList)
    /\ cpc \in {"parsed", "serialized", "reparsed"} =>
          parsed.kind = "Ok" /\ parsed.graph = Denoted(nodeList, edgeList)

\* C8 witness: the text has been parsed; its node list gives one id twice
\* with two values, and its edge list has an edge that was admitted.
C8_Witness ==
    /\ cpc = "parsed"
    /\ \E i, j \in DOMAIN nodeList :
          i < j /\ nodeList[i][1] = nodeList[j][1] /\ nodeList[i][2] # nodeList[j][2]
    /\ parsed.graph.edges # {}

\* C9: the text serialize gives for a parsed graph parses, and to a graph
\* with the same nodes and the same edges.
C9_RoundTrip ==
    cpc = "reparsed" =>
        /\ reparsed.kind = "Ok"
        /\ reparsed.graph.nodes = parsed.graph.nodes
        /\ reparsed.graph.edges = parsed.graph.edges

\* The round trip of a graph that has a node: the serialized text parses
\* to the same graph.
RoundTripWithNodes ==
    (cpc = "reparsed" /\ DOMAIN parsed.graph.nodes # {}) =>
        reparsed.kind = "Ok" /\ reparsed.graph = parsed.graph

---------------------------------------------------------------------------
(* Properties of bfs *)

\* The ids reachable in g from the ids of S along directed edges.
RECURSIVE ReachableFrom(_, _)
ReachableFrom(g, S) ==
    LET T == S \cup {e[2] : e \in {x \in g.edges : x[1] \in S}}
    IN  IF T = S THEN S ELSE ReachableFrom(g, T)

\* The ids of the views observed so far.
ObservedIds == {observed[i].id : i \in DOMAIN observed}

\* C10: bfs from a present source never observes a node twice nor a node
\* that is not reachable from the source, and when it ends it has observed
\* every reachable node.
C10_BfsObservesReachableOnce ==
    (pc \in {"bfs", "done"} /\ op.source \in DOMAIN graph.nodes) =>
        /\ \A i, j \in DOMAIN observed : i # j => observed[i].id # observed[j].id
        /\ ObservedIds \subseteq ReachableFrom(graph, {op.source})
        /\ pc = "done" => ObservedIds = ReachableFrom(graph, {op.source})

\* C10 witness: a traversal has ended on a graph where the source reaches
\* another node, some node is not reachable, and an id was enqueued more
\* than once (a cycle, a self-loop or a second path).
C10_Witness ==
    /\ pc = "done"
    /\ op.source \in DOMAIN graph.nodes
    /\ Cardinality(ReachableFrom(graph, {op.source})) >= 2
    /\ DOMAIN graph.nodes \ ReachableFrom(graph, {op.source}) # {}
    /\ enqueued > Len(observed)

\* C11: bfs terminates: a traversal that has been started reaches the end of
\* its loop, with the queue empty, whatever the graph and the source.
C11_BfsTerminates == (pc = "bfs") ~> (pc = "done" /\ queue = <<>>)

\* C11 witness: a traversal has ended on a graph where the source lies on a
\* cycle of two nodes and a reachable node has a self-loop.
C11_Witness ==
    /\ pc = "done"
    /\ \E e \in graph.edges :
          e[1] = op.source /\ e[2] # op.source /\ <<e[2], e[1]>> \in graph.edges
    /\ \E n \in ReachableFrom(graph, {op.source}) : <<n, n>> \in graph.edges

\* C12: bfs from a source that is not in the graph observes nothing, prints
\* one diagnostic, enqueues nothing after the source, and ends.
C12_BfsAbsentSource ==
    (pc \in {"bfs", "done"} /\ op.source \notin DOMAIN graph.nodes) =>
        /\ observed = <<>>
        /\ enqueued = 1
        /\ diagnostics <= 1
        /\ queue \in {<<op.source>>, <<>>}
        /\ queue = <<>> => diagnostics = 1
        /\ pc = "done" => diagnostics = 1 /\ queue = <<>>

\* C12 witness: a traversal from an absent source has ended, on a graph
\* that has nodes and edges.
C12_Witness ==
    /\ pc = "done"
    /\ op.source \notin DOMAIN graph.nodes
    /\ graph.edges # {}

\* C18: in a traversal no node is processed twice, and the number of ids
\* enqueued so far, hence the length of the queue, is at most one more than
\* the number of edges.
C18_BfsEnqueueBound ==
    pc \in {"bfs", "done"} =>
        /\ \A i, j \in DOMAIN observed : i # j => observed[i].id # observed[j].id
        /\ enqueued <= 1 + Cardinality(graph.edges)
        /\ Len(queue) <= 1 + Cardinality(graph.edges)
        /\ Len(queue) <= enqueued

\* C18 witness: a traversal has ended having enqueued one id more than the
\* graph has edges, some of them an id that had been visited already.
C18_Witness ==
    /\ pc = "done"
    /\ Cardinality(graph.edges) >= 2
    /\ enqueued = 1 + Cardinality(graph.edges)
    /\ enqueued > Len(observed)

\* C19: on a graph reached by the store's operations, bfs from a present
\* source prints no diagnostic: every id it pops resolves.
C19_BfsNoDiagnostic ==
    (pc \in {"bfs", "done"} /\ op.source \in DOMAIN graph.nodes) =>
        /\ diagnostics = 0
        /\ \A i \in DOMAIN queue : queue[i] \in DOMAIN graph.nodes

\* C19 witness: a traversal from a present source has ended having observed
\* two nodes or more, on a graph from which a node is absent.
C19_Witness ==
    /\ pc = "done"
    /\ op.source \in DOMAIN graph.nodes
    /\ Len(observed) >= 2
    /\ Ids \ DOMAIN graph.nodes # {}

\* The number of edges on a shortest directed path in g from an id of S to
\* t, counted from d; -1 when there is no path.
RECURSIVE Distance(_, _, _, _)
Distance(g, S, t, d) ==
    IF t \in S THEN d
    ELSE LET T == S \cup {e[2] : e \in {x \in g.edges : x[1] \in S}}
         IN  IF T = S THEN -1 ELSE Distance(g, T, t, d + 1)

\* C17: bfs observes in level order: a node observed before another is at
\* most as far from the source, whatever the order of the neighbour lists.
C17_BfsLevelOrder ==
    (pc \in {"bfs", "done"} /\ op.source \in DOMAIN graph.nodes) =>
        \A i, j \in DOMAIN observed :
            i < j => /\ Distance(graph, {op.source}, observed[i].id, 0) >= 0
                     /\ Distance(graph, {op.source}, observed[i].id, 0)
                           <= Distance(graph, {op.source}, observed[j].id, 0)

\* C17 witness: a traversal has ended that observed two nodes at distance 1
\* and a node at distance 2.
C17_Witness ==
    /\ pc = "done"
    /\ op.source \in DOMAIN graph.nodes
    /\ \E i, j, k \in DOMAIN observed :
          /\ i # j
          /\ Distance(graph, {op.source}, observed[i].id, 0) = 1
          /\ Distance(graph, {op.source}, observed[j].id, 0) = 1
          /\ Distance(graph, {op.source}, observed[k].id, 0) = 2

\* C20: after delete_node(id) and then add_node(id, v2) the value stored
\* under id is v2 and no edge has id as from or to; the rest of the graph is
\* what the deletion left.
C20_ReAddIsFresh ==
    Called("delete_node, add_node") =>
        /\ op.id \in DOMAIN graph.nodes
        /\ graph.nodes[op.id] = op.value
        /\ \A e \in graph.edges : e[1] # op.id /\ e[2] # op.id
        /\ graph.edges = pre.edges \ Incident(pre, op.id)
        /\ DOMAIN graph.nodes = DOMAIN pre.nodes \cup {op.id}
        /\ \A k \in DOMAIN pre.nodes \ {op.id} : graph.nodes[k] = pre.nodes[k]

\* C20 witness: the node deleted had another value than the one added, an
\* incoming edge, an outgoing edge and a self-loop.
C20_Witness ==
    /\ Called("delete_node, add_node")
    /\ op.id \in DOMAIN pre.nodes
    /\ pre.nodes[op.id] # op.value
    /\ <<op.id, op.id>> \in pre.edges
    /\ \E e \in pre.edges : e[1] = op.id /\ e[2] # op.id
    /\ \E e \in pre.edges : e[2] = op.id /\ e[1] # op.id

---------------------------------------------------------------------------
(* Properties of the parse of malformed texts *)

\* Line i of ls is the first that is not among the well-formed lines.
FirstMalformed(ls, i, valid) ==
    i \in DOMAIN ls /\ ls[i] \notin valid /\ \A j \in 1..(i - 1) : ls[j] \in valid

\* The first malformed line of the input is a node line, one of bad.
NodeLineIs(bad) ==
    \E i \in DOMAIN input.nodeLines :
        /\ FirstMalformed(input.nodeLines, i, ValidNodeLines(input.T))
        /\ input.nodeLines[i] \in bad

\* The node lines are well-formed, the delimiter is there, and the first
\* malformed line is an edge line, one of bad.
EdgeLineIs(bad) ==
    /\ \A i \in DOMAIN input.nodeLines : input.nodeLines[i] \in ValidNodeLines(input.T)
    /\ input.delim = Delimiter
    /\ \E i \in DOMAIN input.edgeLines :
          /\ FirstMalformed(input.edgeLines, i, {ValidEdgeLine})
          /\ input.edgeLines[i] \in bad

\* C13: when, after any number of well-formed lines, a node line or an edge
\* line has a value that the value type rejects, the parse returns an error
\* and no graph.
C13_RejectedValueFailsParse ==
    (cpc = "parsed" /\ (\/ NodeLineIs(RejectedNodeLines(input.T))
                        \/ EdgeLineIs({RejectedEdgeLine}))) =>
        parsed.kind = "Err" /\ DOMAIN parsed = {"kind", "what"}

\* C13 witness: the parse has failed on a text whose third and last edge
\* line has the rejected value, after two node lines and two edge lines.
C13_Witness ==
    /\ cpc = "parsed"
    /\ EdgeLineIs({RejectedEdgeLine})
    /\ Len(input.nodeLines) = 2
    /\ Len(input.edgeLines) = 3
    /\ input.edgeLines[3] = RejectedEdgeLine
    /\ parsed.kind = "Err"

\* C14: when, after any number of well-formed lines, a node line or an edge
\* line has an id that is not a number, the parse returns an error.
C14_NonNumericIdFailsParse ==
    (cpc = "parsed" /\ (\/ NodeLineIs({NonNumericIdLine})
                        \/ EdgeLineIs({NonNumericIdLine}))) =>
        parsed.kind = "Err"

\* A node line whose id is not a number does make the parse fail: the node
\* list ends before it, and the delimiter is not what follows.
NonNumericNodeIdFailsParse ==
    (cpc = "parsed" /\ input.delim = Delimiter /\ NodeLineIs({NonNumericIdLine})) =>
        parsed.kind = "Err"

\* C15: a text that lacks the delimiter (line ending, '#', line ending)
\* after its node lines is not parsed: the result is an error and no graph,
\* also when the text is node lines and nothing else.
C15_MissingDelimiterFailsParse ==
    (cpc = "parsed" /\ input # None /\ input.delim # Delimiter) =>
        parsed.kind = "Err" /\ DOMAIN parsed = {"kind", "what"}

\* C15 witness: the parse has failed on a text of two well-formed node
\* lines and nothing else.
C15_Witness ==
    /\ cpc = "parsed"
    /\ input # None
    /\ input.T = "String"
    /\ input.delim = <<>>
    /\ input.edgeLines = <<>>
    /\ Len(input.nodeLines) = 2
    /\ \A i \in DOMAIN input.nodeLines : input.nodeLines[i] \in ValidNodeLines(input.T)
    /\ parsed.kind = "Err"

---------------------------------------------------------------------------
(* Properties of the command-line driver *)

\* The file cannot be read, or its text does not parse.
DriverInputFails ==
    read_and_parse(driver.file).kind = "Err"

\* C16: when the file cannot be read or does not parse, the driver prints a
\* message, does not run the traversal and ends with a non-zero exit
\* status; the traversal from the given source runs only on success.
C16_DriverFailureOutcome ==
    (driver # None /\ driver.pc = "exited") =>
        IF DriverInputFails
            THEN /\ driver.stderr # <<>>
                 /\ op = NoOp
                 /\ observed = <<>>
                 /\ driver.exit # Some(ExitCode_SUCCESS)
            ELSE op = [name |-> "bfs", source |-> driver.source]

\* What does hold of the driver: on a failure it prints one message and runs
\* no traversal, and it runs bfs from the given source on success only.
DriverFailureSkipsTraversal ==
    (driver # None /\ driver.pc = "exited") =>
        IF DriverInputFails
            THEN /\ Len(driver.stderr) = 1
                 /\ op = NoOp
                 /\ observed = <<>>
            ELSE /\ op = [name |-> "bfs", source |-> driver.source]
                 /\ driver.stderr = <<>>

===========================================================================
